---- MODULE Spec2Model ----
(***************************************************************************)
(* Model of the package risk-assessment pipeline of main.py: the setup,    *)
(* the eight metadata stages, the archive download, the static API-usage   *)
(* stage and the finalization that writes the report.                      *)
(*                                                                         *)
(* Python values that may be None, or whose type varies, are encoded as    *)
(* one-field records: None, Str(s), Num(n), Bool(b), List(seq), Dict(fn).  A call   *)
(* of an external collaborator that raises is the answer Raise.            *)
(***************************************************************************)
EXTENDS Integers, Sequences, FiniteSets, TLC

VARIABLES pc, threat_model, pm_name, pkg_name, ver_str, ver_info,
          risks, report, filepath, stdout, files, exit_code, error,
          answers   \* history: in a recorded run, what the collaborators
                    \* answered to the steps after setup

vars == <<pc, threat_model, pm_name, pkg_name, ver_str, ver_info,
          risks, report, filepath, stdout, files, exit_code, error, answers>>

-----------------------------------------------------------------------------
(* Bounds *)

\* the collaborators answer freely while the run shows fewer than this many
\* deviations (alerts, FAILED lines, unusual report values); then nominally
MaxDeviations == 2
\* at most this many usage tags in one API-usage record
MaxTags == 2
\* the data rows of a threat table the loader is tried on
MaxRows == 3
\* the deviations of a run whose answers are recorded
MaxRecorded == 1

-----------------------------------------------------------------------------
(* Python values *)

None == [none |-> TRUE]
Str(s) == [str |-> s]
Num(n) == [int |-> n]
Bool(b) == [bool |-> b]
List(l) == [list |-> l]
Dict(d) == [dict |-> d]
Raise == [raise |-> TRUE]
Unbound == [unbound |-> TRUE]

IsInt(x) == DOMAIN x = {"int"}
IsDict(x) == DOMAIN x = {"dict"}

\* Python truthiness: `not x`
Not(x) == x \in {None, Str(""), Num(0), List(<<>>), Dict(<<>>)}

\* d[k] = v on a dict
Put(d, k, v) == [x \in DOMAIN d \cup {k} |-> IF x = k THEN v ELSE d[x]]

IsPrefix(s, t) == Len(s) <= Len(t) /\ SubSeq(t, 1, Len(s)) = s

-----------------------------------------------------------------------------
(* Threat model *)

\* the alert types the stages raise
KnownAttributes ==
  {"old package", "few versions or releases", "version release after a long gap",
   "invalid or no author email (2FA not enabled)", "no or insufficient readme",
   "invalid or no homepage", "few downloads", "invalid or no source repo",
   "contains known vulnerablities (CVEs)", "accesses files and dirs",
   "communicates with external network", "generates new code at runtime",
   "accesses obfuscated (hidden) code", "accesses system/environment variables",
   "changes system/environment variables", "reads user input"}

NL == "\n"

\* s.strip('\n'), for a field s that is an alert type within line feeds
strip_nl(s) ==
  LET c == {t \in KnownAttributes : s \in {t, t \o NL, NL \o t, NL \o t \o NL, t \o NL \o NL}}
  IN IF c = {} THEN s ELSE CHOOSE t \in c : TRUE

RECURSIVE get_threat_model_from(_, _)
get_threat_model_from(lines, acc) ==
  IF lines = <<>> THEN acc
  ELSE LET line == Head(lines)
           typ == line[1]
           attr == strip_nl(line[2])
       IN get_threat_model_from(Tail(lines), Put(acc, attr, typ))

\* a loader that takes the header row for a data row
get_threat_model_keeps_header(csv) == get_threat_model_from(csv, <<>>)

\* read_from_csv(filename, skip_header=True) drops the first row
get_threat_model(csv) ==
  get_threat_model_from(IF csv = <<>> THEN <<>> ELSE Tail(csv), <<>>)

\* a registry that files an unmapped alert type under "unclassified"
alert_user_unclassified(alert_type, tm, reason, rsk) ==
  LET risk_cat == IF alert_type \in DOMAIN tm THEN tm[alert_type] ELSE "unclassified"
      r1 == IF risk_cat \notin DOMAIN rsk THEN Put(rsk, risk_cat, <<>>) ELSE rsk
  IN Put(r1, risk_cat, Append(r1[risk_cat], alert_type \o ": " \o reason))

\* a registry that drops a message its category already holds
alert_user_dedup(alert_type, tm, reason, rsk) ==
  IF alert_type \in DOMAIN tm
  THEN LET risk_cat == tm[alert_type]
           msg == alert_type \o ": " \o reason
           r1 == IF risk_cat \notin DOMAIN rsk THEN Put(rsk, risk_cat, <<>>) ELSE rsk
       IN IF \E i \in DOMAIN r1[risk_cat] : r1[risk_cat][i] = msg
          THEN r1
          ELSE Put(r1, risk_cat, Append(r1[risk_cat], msg))
  ELSE rsk

\* a registry kept in the module: the alert goes to the registry of the
\* process, whatever registry the caller passed
alert_user_ambient(alert_type, tm, reason, rsk) ==
  IF alert_type \in DOMAIN tm
  THEN LET risk_cat == tm[alert_type]
           r1 == IF risk_cat \notin DOMAIN risks THEN Put(risks, risk_cat, <<>>) ELSE risks
       IN Put(r1, risk_cat, Append(r1[risk_cat], alert_type \o ": " \o reason))
  ELSE rsk

alert_user(alert_type, tm, reason, rsk) ==
  IF alert_type \in DOMAIN tm
  THEN LET risk_cat == tm[alert_type]
           r1 == IF risk_cat \notin DOMAIN rsk THEN Put(rsk, risk_cat, <<>>) ELSE rsk
       IN Put(r1, risk_cat, Append(r1[risk_cat], alert_type \o ": " \o reason))
  ELSE rsk

-----------------------------------------------------------------------------
(* Stage results: the registry, the report and the lines printed *)

\* the line a step prints first
StartLine(step) ==
  IF step = "analyze_version" THEN "[+] Checking version..."
  ELSE IF step = "analyze_release_history" THEN "[+] Checking release history..."
  ELSE IF step = "analyze_author" THEN "[+] Checking author..."
  ELSE IF step = "analyze_readme" THEN "[+] Checking readme..."
  ELSE IF step = "analyze_homepage" THEN "[+] Checking homepage..."
  ELSE IF step = "analyze_downloads" THEN "[+] Checking downloads..."
  ELSE IF step = "analyze_repo" THEN "[+] Checking repo..."
  ELSE IF step = "analyze_cves" THEN "[+] Checking for CVEs..."
  ELSE IF step = "analyze_apis" THEN "[+] Analyzing APIs..."
  ELSE IF step = "download" THEN "[+] Downloading package..."
  ELSE "[+] Fetching..."

Result(rsk, rep, out) == [risks |-> rsk, report |-> rep, out |-> out, raised |-> FALSE]

\* the end of a stage that ran through: print("OK [...]"), then finally: return
Ok(start, rsk, rep) == Result(rsk, rep, start \o <<"OK">>)

\* a stage without its except clause: the exception leaves the stage
Caught_propagates(start, rsk, rep) ==
  [risks |-> rsk, report |-> rep, out |-> start, raised |-> TRUE]

\* an except clause that starts the report afresh
Caught_resets_report(start, rsk, rep) == Result(rsk, <<>>, start \o <<"FAILED">>)

\* except Exception as e: print("FAILED [...]"), then finally: return
Caught(start, rsk, rep) == Result(rsk, rep, start \o <<"FAILED">>)

\* the age test with >= for >
too_old_ge(days) == days >= 365

\* days > 365
too_old(days) == days > 365

analyze_version(vi, delta, rsk, rep) ==
  LET start == <<StartLine("analyze_version")>>
      failed(r) == Caught(start, r, rep)
  IN IF Not(Dict(vi)) THEN failed(rsk)
     ELSE IF "uploaded" \notin DOMAIN vi THEN failed(rsk)
     ELSE LET uploaded == vi["uploaded"]
              days == delta
          IN IF days = Raise THEN failed(rsk)
             ELSE IF ~Not(uploaded) /\ ~IsInt(days) THEN failed(rsk)
             ELSE LET alert == Not(uploaded) \/ too_old(days.int)
                      reason == IF Not(uploaded) THEN "no release date"
                                ELSE ToString(days.int) \o " days old"
                      r1 == IF alert
                            THEN alert_user("old package", threat_model, reason, rsk)
                            ELSE rsk
                  IN IF ~IsInt(days) THEN failed(r1)
                     ELSE Ok(start, r1, Put(rep, "version", Dict(vi)))

\* the gap test with >= for >
long_gap_ge(days) == days >= 180

\* days > 180
long_gap(days) == days > 180

analyze_release_history(name, ver, hist, rsk, rep) ==
  LET start == <<StartLine("analyze_release_history")>>
      failed(r) == Caught(start, r, rep)
  IN IF hist = Raise THEN failed(rsk)
     ELSE IF Not(hist) THEN failed(rsk)
     ELSE LET release_history == hist.dict
              n == Cardinality(DOMAIN release_history)
          IN IF n < 2
             THEN LET reason == "only " \o ToString(n) \o " versions released"
                      r1 == alert_user("few versions or releases", threat_model, reason, rsk)
                  IN Ok(start, r1, Put(rep, "releases", hist))
             ELSE IF ver \notin DOMAIN release_history
                     \/ "days_since_last_release" \notin DOMAIN release_history[ver]
                  THEN Ok(start \o <<"KeyError">>, rsk, Put(rep, "releases", hist))
                  ELSE LET days == release_history[ver]["days_since_last_release"]
                           alert == ~Not(days) /\ long_gap(days.int)
                           reason == "version released after " \o ToString(days.int) \o " days"
                           r1 == IF alert
                                 THEN alert_user("version release after a long gap",
                                                 threat_model, reason, rsk)
                                 ELSE rsk
                       IN Ok(start, r1, Put(rep, "releases", hist))


RECURSIVE join(_, _)
\* sep.join(vul['id'] for vul in vuln_list)
join(sep, l) ==
  IF l = <<>> THEN ""
  ELSE IF Len(l) = 1 THEN l[1]["id"]
  ELSE l[1]["id"] \o sep \o join(sep, Tail(l))

\* the stage with the report section written before the identifiers are read
analyze_cves_early(vulns, rsk, rep) ==
  LET start == <<StartLine("analyze_cves")>>
      failed(r) == Caught(start, r, Put(rep, "vulnerabilities", vulns))
  IN IF vulns = Raise THEN Caught(start, rsk, rep)
     ELSE IF ~Not(vulns)
          THEN LET vuln_list == vulns.list
               IN IF \E i \in DOMAIN vuln_list : "id" \notin DOMAIN vuln_list[i]
                  THEN failed(rsk)
                  ELSE LET reason == "contains " \o join(",", vuln_list)
                           r1 == alert_user("contains known vulnerablities (CVEs)",
                                            threat_model, reason, rsk)
                       IN Ok(start, r1, Put(rep, "vulnerabilities", vulns))
          ELSE Ok(start, rsk, Put(rep, "vulnerabilities", List(<<>>)))

analyze_cves(vulns, rsk, rep) ==
  LET start == <<StartLine("analyze_cves")>>
      failed(r) == Caught(start, r, rep)
  IN IF vulns = Raise THEN failed(rsk)
     ELSE IF ~Not(vulns)
          THEN LET vuln_list == vulns.list
               IN IF \E i \in DOMAIN vuln_list : "id" \notin DOMAIN vuln_list[i]
                  THEN failed(rsk)
                  ELSE LET reason == "contains " \o join(",", vuln_list)
                           r1 == alert_user("contains known vulnerablities (CVEs)",
                                            threat_model, reason, rsk)
                       IN Ok(start, r1, Put(rep, "vulnerabilities", vulns))
          ELSE Ok(start, rsk, Put(rep, "vulnerabilities", List(<<>>)))

\* a downloads stage that keeps the count in a section of the report
analyze_downloads_section(ret, rsk, rep) ==
  LET start == <<StartLine("analyze_downloads")>>
  IN IF ret = Raise \/ ~IsInt(ret) THEN Caught(start, rsk, rep)
     ELSE Ok(start,
             IF ret.int < 1000
             THEN alert_user("few downloads", threat_model,
                             "only " \o ToString(ret.int) \o " weekly downloads", rsk)
             ELSE rsk,
             Put(rep, "downloads", ret))

analyze_downloads(ret, rsk, rep) ==
  LET start == <<StartLine("analyze_downloads")>>
      failed(r) == Caught(start, r, rep)
  IN IF ret = Raise THEN failed(rsk)
     ELSE IF ~IsInt(ret) THEN failed(rsk)
     ELSE LET reason == "only " \o ToString(ret.int) \o " weekly downloads"
              r1 == IF ret.int < 1000
                    THEN alert_user("few downloads", threat_model, reason, rsk)
                    ELSE rsk
          IN Ok(start, r1, rep)

\* a scheme test that takes plain http for secure
insecure_not_http(ret) == ret.scheme \notin {"https", "http"}

\* ret.scheme != 'https'
insecure(ret) == ret.scheme # "https"

analyze_homepage(url, parsed, site, popular, rsk, rep) ==
  LET start == <<StartLine("analyze_homepage")>>
      failed(r) == Caught(start, r, rep)
      alert_type == "invalid or no homepage"
  IN IF url = Raise THEN failed(rsk)
     ELSE LET r1 == IF Not(url)
                    THEN alert_user(alert_type, threat_model, "no homepage", rsk)
                    ELSE rsk
          IN IF parsed = Raise THEN failed(r1)
             ELSE LET r2 == IF insecure(parsed)
                            THEN alert_user(alert_type, threat_model, "insecure webpage", r1)
                            ELSE r1
                  IN IF site = Raise THEN failed(r2)
                     ELSE LET valid_site == site.valid_site
                              reason == site.reason
                          IN IF ~valid_site
                             THEN Ok(start, alert_user(alert_type, threat_model, reason, r2),
                                         Put(rep, "homepage", url))
                             ELSE IF popular = Raise THEN failed(r2)
                             ELSE IF popular.bool
                             THEN Ok(start, alert_user(alert_type, threat_model,
                                                    "invalid (popular) webpage", r2),
                                         Put(rep, "homepage", url))
                             ELSE Ok(start, r2, Put(rep, "homepage", url))

\* a readme stage with one test for a missing and one for a short description
analyze_readme_two_tests(descr, rsk, rep) ==
  LET start == <<StartLine("analyze_readme")>>
      alert_type == "no or insufficient readme"
  IN IF descr = Raise THEN Caught(start, rsk, rep)
     ELSE LET r1 == IF Not(descr)
                    THEN alert_user(alert_type, threat_model, "no description", rsk)
                    ELSE rsk
          IN IF descr = None THEN Caught(start, r1, rep)
             ELSE Ok(start,
                     IF Len(descr.str) < 100
                     THEN alert_user(alert_type, threat_model, "insufficient description", r1)
                     ELSE r1,
                     rep)

analyze_readme(descr, rsk, rep) ==
  LET start == <<StartLine("analyze_readme")>>
      failed(r) == Caught(start, r, rep)
  IN IF descr = Raise THEN failed(rsk)
     ELSE LET alert == Not(descr) \/ Len(descr.str) < 100
              reason == IF Not(descr) THEN "no description" ELSE "insufficient description"
              r1 == IF alert
                    THEN alert_user("no or insufficient readme", threat_model, reason, rsk)
                    ELSE rsk
          IN IF descr = None THEN failed(r1)
             ELSE Ok(start, r1, rep)

analyze_author(author_info, checked, rsk, rep) ==
  LET start == <<StartLine("analyze_author")>>
      failed(r) == Caught(start, r, rep)
  IN IF author_info = Raise THEN failed(rsk)
     ELSE IF Not(author_info) THEN failed(rsk)
     ELSE LET email == IF "email" \in DOMAIN author_info.dict
                       THEN author_info.dict["email"] ELSE None
          IN IF checked = Raise THEN failed(rsk)
             ELSE LET valid == checked.valid
                      valid_with_dns == checked.valid_with_dns
                      reason == IF Not(email) THEN "no email"
                                ELSE IF ~valid THEN "invalid author email"
                                ELSE "expired author email domain"
                      r1 == IF ~valid \/ ~valid_with_dns
                            THEN alert_user("invalid or no author email (2FA not enabled)",
                                            threat_model, reason, rsk)
                            ELSE rsk
                  IN Ok(start, r1, Put(rep, "author", author_info))


-----------------------------------------------------------------------------
(* Strings: TLC concatenates and measures strings but cannot index them,   *)
(* so prefix, strip and substring tests search the decomposition of the    *)
(* string among the fragments the URLs and tags of the model are built of. *)

Schemes == {"https", "http", "git+https", "git"}
Hosts == {"github.com", "gitlab.com", "example.com"}
UrlTails == {"", "x/y", "pypa/sampleproject", "pypa/sampleproject/", "p-1.0.tar.gz"}

\* every URL of the model is sc://host/tail
Urls == {sc \o "://" \o h \o "/" \o t : sc \in Schemes, h \in Hosts, t \in UrlTails}

\* s.startswith(p), for a prefix p of the form sc://host/
startswith(s, p) == \E t \in UrlTails : s = p \o t

\* s.startswith(tuple(ps))
startswith_any(s, ps) == \E i \in DOMAIN ps : startswith(s, ps[i])

\* s.strip('/'), for a URL s
strip(s) ==
  LET cores == {sc \o "://" \o h \o t : sc \in Schemes, h \in Hosts,
                  t \in {"", "/x/y", "/pypa/sampleproject", "/p-1.0.tar.gz"}}
      c == {t \in cores : s = t \/ s = t \o "/"}
  IN IF c = {} THEN s ELSE CHOOSE t \in c : \A u \in c : Len(t) <= Len(u)

\* urlparse(url).scheme: the part of a URL before "://", empty for None
scheme(url) ==
  IF Not(url) THEN ""
  ELSE LET m == {sc \in Schemes : \E h \in Hosts, t \in UrlTails :
                                    url.str = sc \o "://" \o h \o "/" \o t}
       IN IF m = {} THEN "" ELSE CHOOSE sc \in m : TRUE

popular_hosting_services ==
  <<"https://github.com/", "https://gitlab.com/", "git+https://github.com/", "git://github.com/">>

analyze_repo(repo0, homepage, download_url, rsk, rep) ==
  LET start == <<StartLine("analyze_repo")>>
      failed(r) == Caught(start, r, rep)
      popular(u) == startswith_any(u.str, popular_hosting_services)
      finish(repo) ==
        LET r1 == IF Not(repo)
                  THEN alert_user("invalid or no source repo", threat_model,
                                  "no source repo found", rsk)
                  ELSE IF ~popular(repo)
                  THEN alert_user("invalid or no source repo", threat_model,
                                  "invalid source repo " \o repo.str, rsk)
                  ELSE IF strip(repo.str) \in {"https://github.com/pypa/sampleproject",
                                               "https://github.com/kubernetes/kubernetes"}
                  THEN alert_user("invalid or no source repo", threat_model,
                                  "invalid source repo " \o repo.str, rsk)
                  ELSE rsk
        IN Ok(start, r1, Put(rep, "repo", repo))
      from_download ==
        IF download_url = Raise THEN failed(rsk)
        ELSE finish(IF Not(download_url) \/ ~popular(download_url) THEN None ELSE download_url)
      from_homepage ==
        IF homepage = Raise THEN failed(rsk)
        ELSE IF Not(homepage) \/ ~popular(homepage) THEN from_download
        ELSE finish(homepage)
  IN IF repo0 = Raise THEN failed(rsk)
     ELSE IF Not(repo0) THEN from_homepage
     ELSE finish(repo0)

-----------------------------------------------------------------------------
(* Static API usage *)

Word == "SINK_CODE_GENERATION"
\* the prefixes and the suffixes of Word, by length
Prefixes == <<"", "S", "SI", "SIN", "SINK", "SINK_", "SINK_C", "SINK_CO", "SINK_COD",
              "SINK_CODE", "SINK_CODE_", "SINK_CODE_G", "SINK_CODE_GE", "SINK_CODE_GEN",
              "SINK_CODE_GENE", "SINK_CODE_GENER", "SINK_CODE_GENERA",
              "SINK_CODE_GENERAT", "SINK_CODE_GENERATI", "SINK_CODE_GENERATIO",
              "SINK_CODE_GENERATION">>
Suffixes == <<"", "N", "ON", "ION", "TION", "ATION", "RATION", "ERATION", "NERATION",
              "ENERATION", "GENERATION", "_GENERATION", "E_GENERATION", "DE_GENERATION",
              "ODE_GENERATION", "CODE_GENERATION", "_CODE_GENERATION",
              "K_CODE_GENERATION", "NK_CODE_GENERATION", "INK_CODE_GENERATION",
              "SINK_CODE_GENERATION">>

\* p in Word, the substring test on strings: Word = a + p + b for some a, b
in_str(p) ==
  /\ Len(p) <= Len(Word)
  /\ \E i \in 0..(Len(Word) - Len(p)) :
       Prefixes[i + 1] \o p \o Suffixes[Len(Word) - Len(p) - i + 1] = Word

\* a table with one reason for both directions of network traffic
classify_network_alike(p) ==
  IF p = "SOURCE_FILE" THEN <<"accesses files and dirs", "reads files and dirs">>
  ELSE IF p = "SINK_FILE" THEN <<"accesses files and dirs", "writes to files and dirs">>
  ELSE IF p \in {"SINK_NETWORK", "SOURCE_NETWORK"}
  THEN <<"communicates with external network", "uses the network">>
  ELSE IF in_str(p)
  THEN <<"generates new code at runtime", "generates new code at runtime">>
  ELSE <<"generates new code at runtime", "spawns new processes in background">>

\* the if/elif chain of the loop body: the (alert_type, reason) of a tag
classify(p) ==
  IF p = "SOURCE_FILE" THEN <<"accesses files and dirs", "reads files and dirs">>
  ELSE IF p = "SINK_FILE" THEN <<"accesses files and dirs", "writes to files and dirs">>
  ELSE IF p = "SINK_NETWORK"
  THEN <<"communicates with external network", "sends data over the network %s">>
  ELSE IF p = "SOURCE_NETWORK"
  THEN <<"communicates with external network", "fetches data over the network">>
  ELSE IF in_str(p)
  THEN <<"generates new code at runtime", "generates new code at runtime">>
  ELSE IF ~Not(Str("SINK_PROCESS_OPERATION"))
  THEN <<"generates new code at runtime", "spawns new processes in background">>
  ELSE IF p = "SOURCE_OBFUSCATION"
  THEN <<"accesses obfuscated (hidden) code", "reads hidden code">>
  ELSE IF p = "SOURCE_SETTINGS"
  THEN <<"accesses system/environment variables",
         "reads system settings or environment variables">>
  ELSE IF p = "SINK_UNCLASSIFIED"
  THEN <<"changes system/environment variables",
         "modifies system settings or environment variables">>
  ELSE IF p = "SOURCE_ACCOUNT"
  THEN <<"changes system/environment variables",
         "modifies system settings or environment variables">>
  ELSE IF p = "SOURCE_USER_INPUT" THEN <<"reads user input", "reads user input">>
  ELSE <<>>

RECURSIVE api_loop_overwrite(_, _, _)
\* a loop that files each usage list under its reason, replacing what is there
api_loop_overwrite(items, rsk, report_data) ==
  IF items = <<>> THEN [risks |-> rsk, report_data |-> report_data]
  ELSE LET c == classify(items[1][1])
       IN api_loop_overwrite(Tail(items), alert_user(c[1], threat_model, c[2], rsk),
                             Put(report_data, c[2], items[1][2]))

RECURSIVE api_loop(_, _, _)
\* for p, usage in perms.items(): ... ; items is the dict in iteration order
api_loop(items, rsk, report_data) ==
  IF items = <<>> THEN [risks |-> rsk, report_data |-> report_data]
  ELSE LET p == items[1][1]
           usage == items[1][2]
           c == classify(p)
           alert_type == c[1]
           reason == c[2]
           r1 == alert_user(alert_type, threat_model, reason, rsk)
           d1 == IF reason \notin DOMAIN report_data
                 THEN Put(report_data, reason, usage)
                 ELSE Put(report_data, reason, report_data[reason] \o usage)
       IN api_loop(Tail(items), r1, d1)

analyze_apis(pm, static, perms, rsk, rep) ==
  LET start == <<StartLine("analyze_apis")>>
      failed(r) == Caught(start, r, rep)
  IN IF pm \notin {"pypi", "npm"} THEN failed(rsk)
     ELSE IF static = Raise THEN failed(rsk)
     ELSE IF ~static.exists THEN failed(rsk)
     ELSE IF perms = Raise THEN failed(rsk)
     ELSE IF Not(perms) THEN failed(rsk)
     ELSE LET l == api_loop(perms.dict, rsk, <<>>)
          IN Ok(start, l.risks, Put(rep, "permissions", Dict(l.report_data)))


-----------------------------------------------------------------------------
(* The answers of the external collaborators *)

ThreatCsvs ==
  { << <<"risk", "attribute">>,
       <<"undesirable", "old package">>,
       <<"undesirable", "few versions or releases">>,
       <<"undesirable", "version release after a long gap">>,
       <<"undesirable", "invalid or no author email (2FA not enabled)">>,
       <<"undesirable", "no or insufficient readme">>,
       <<"undesirable", "invalid or no homepage">>,
       <<"undesirable", "few downloads">>,
       <<"undesirable", "invalid or no source repo">>,
       <<"vulnerable", "contains known vulnerablities (CVEs)">>,
       <<"malicious", "accesses files and dirs">>,
       <<"malicious", "communicates with external network">>,
       <<"malicious", "generates new code at runtime">>,
       <<"malicious", "accesses obfuscated (hidden) code">>,
       <<"malicious", "accesses system/environment variables">>,
       <<"malicious", "changes system/environment variables">>,
       <<"malicious", "reads user input">> >>,
     << <<"risk", "attribute">>,
        <<"undesirable", "few downloads">>,
        <<"malicious", "generates new code at runtime">>,
        <<"undesirable", "invalid or no homepage">>,
        <<"vulnerable", "few downloads">>,
        <<"undesirable", "no or insufficient readme\n">> >> }

\* sys.argv[1], and sys.argv[2] as its parts between the '==' separators
Argv1 == {"PyPI", "npm", "gem"}
Argv2 == {<<"pkg">>, <<"pkg", "1.0">>, <<"pkg", "1.0", "0">>}

\* str.lower() on the strings of Argv1
lower(a) == IF a = "PyPI" THEN "pypi" ELSE a

Metadatas == {Raise, None, Dict([info |-> [name |-> "Pkg"]]), Dict([releases |-> <<>>])}

Url == "https://example.com/p-1.0.tar.gz"
Uploaded == "2020-01-01"
VerInfos ==
  {Raise, None, Dict(<<>>),
   Dict([tag |-> Str("1.0"), uploaded |-> Str(Uploaded), url |-> Str(Url)]),
   Dict([tag |-> Str("1.0"), uploaded |-> Str(Uploaded)]),
   Dict([tag |-> Str("1.0"), uploaded |-> None, url |-> Str(Url)]),
   Dict([tag |-> Str("1.0"), url |-> Str(Url)]),
   Dict([uploaded |-> Str(Uploaded), url |-> Str(Url)])}

Deltas == {Raise, None, Num(10), Num(365), Num(366)}

Entry(d) == [days_since_last_release |-> d]
Histories ==
  {Raise, None, Dict(<<>>),
   Dict([v \in {"1.0"} |-> Entry(None)]),
   Dict([v \in {"1.0"} |-> Entry(Num(200))]),
   Dict([v \in {"0.9", "1.0"} |-> Entry(Num(30))]),
   Dict([v \in {"0.9", "1.0"} |-> Entry(Num(180))]),
   Dict([v \in {"0.9", "1.0"} |-> Entry(Num(181))]),
   Dict([v \in {"0.9", "1.0"} |-> Entry(None)]),
   Dict([v \in {"0.9", "1.0"} |-> [release_date |-> Str(Uploaded)]]),
   Dict([v \in {"0.8", "0.9"} |-> Entry(Num(200))])}

Authors == {Raise, None, Dict([name |-> Str("ann")]),
            Dict([name |-> Str("ann"), email |-> Str("ann@example.com")])}
EmailCheck(a, b) == [valid |-> a, valid_with_dns |-> b]
EmailChecks == {Raise, EmailCheck(TRUE, TRUE), EmailCheck(TRUE, FALSE), EmailCheck(FALSE, FALSE)}

RECURSIVE Rep(_, _)
Rep(c, n) == IF n = 0 THEN "" ELSE c \o Rep(c, n - 1)
Descriptions == {Raise, None, Str(""), Str(Rep("x", 99)), Str(Rep("x", 100))}

Homepages == {Raise, None, Str("http://example.com/"), Str("https://example.com/"),
              Str("https://github.com/x/y")}
ParseAnswers(url) == IF url = Raise THEN {Raise} ELSE {Raise, [scheme |-> scheme(url)]}
SiteCheck(a, b) == [valid_site |-> a, reason |-> b]
SiteChecks == {Raise, SiteCheck(TRUE, ""), SiteCheck(FALSE, "nonexistent webpage")}
PopularChecks == {Raise, Bool(TRUE), Bool(FALSE)}


DownloadCounts == {Raise, None, Num(999), Num(1000)}

Repos == {Raise, None, Str("https://github.com/x/y"), Str("https://example.com/x/y"),
          Str("https://github.com/pypa/sampleproject/")}
RepoHomepages == {Raise, None, Str("https://example.com/"), Str("https://gitlab.com/x/y")}
DownloadUrls == {Raise, None, Str(Url), Str("git://github.com/x/y")}

Vulns == {Raise, None, List(<<>>), List(<<[id |-> "CVE-1"]>>),
          List(<<[id |-> "CVE-1"], [id |-> "CVE-2"]>>), List(<<[summary |-> "x"]>>)}

Archive == "/tmp/p-1.0.tar.gz"
Download(a, b) == [filepath |-> a, size |-> b]
Downloads == {Raise, Download(Str(Archive), Num(2048)), Download(None, Num(0)),
              Download(None, None), Download(Str(Archive), None)}

Statics == {Raise, [exists |-> TRUE], [exists |-> FALSE]}

Tags == {"SOURCE_FILE", "SINK_FILE", "SINK_NETWORK", "SOURCE_NETWORK", "SINK_CODE_GENERATION",
         "SINK_PROCESS_OPERATION", "SOURCE_OBFUSCATION", "SOURCE_SETTINGS",
         "SINK_UNCLASSIFIED", "SOURCE_ACCOUNT", "SOURCE_USER_INPUT"}

\* the call sites the static analyzer reports for a tag
Usage(tag) == <<tag \o "@setup.py">>

RECURSIVE TagSeqs(_)
\* the sequences of n distinct tags
TagSeqs(n) ==
  IF n = 0 THEN {<<>>}
  ELSE {Append(q, t) : q \in TagSeqs(n - 1), t \in Tags} \ 
       {Append(q, q[i]) : q \in TagSeqs(n - 1), i \in 1..(n - 1)}

\* a dict of parse_api_usage, as its items in iteration order
PermsOf(q) == Dict([i \in DOMAIN q |-> <<q[i], Usage(q[i])>>])
Perms == {Raise, None} \cup {PermsOf(q) : q \in UNION {TagSeqs(n) : n \in 0..MaxTags}}

-----------------------------------------------------------------------------
(* The nominal answers: a healthy package *)

NomCsv == CHOOSE csv \in ThreatCsvs : Len(csv) = 17
NomThreatModel == get_threat_model(NomCsv)
NomVerInfo == [tag |-> Str("1.0"), uploaded |-> Str(Uploaded), url |-> Str(Url)]
NomDelta == Num(10)
NomHistory == Dict([v \in {"0.9", "1.0"} |-> Entry(Num(30))])
NomAuthor == Dict([name |-> Str("ann"), email |-> Str("ann@example.com")])
NomEmailCheck == EmailCheck(TRUE, TRUE)
NomDescription == Str(Rep("x", 100))
NomHomepage == Str("https://example.com/")
NomSiteCheck == SiteCheck(TRUE, "")
NomPopularCheck == Bool(FALSE)
NomDownloadCount == Num(1000)
NomRepo == Str("https://github.com/x/y")
NomVulns == List(<<>>)
NomDownload == Download(Str(Archive), Num(2048))
NomStatic == [exists |-> TRUE]
NomPerms == PermsOf(<<"SOURCE_FILE">>)

NominalReport ==
  [releases |-> NomHistory, author |-> NomAuthor, homepage |-> NomHomepage,
   repo |-> NomRepo, vulnerabilities |-> NomVulns]

RECURSIVE SumLen(_, _)
SumLen(rsk, cats) ==
  IF cats = {} THEN 0
  ELSE LET c == CHOOSE x \in cats : TRUE
       IN Len(rsk[c]) + SumLen(rsk, cats \ {c})

\* the number of messages in the registry
TotalAlerts(rsk) == SumLen(rsk, DOMAIN rsk)

Count(out, token) == Cardinality({i \in DOMAIN out : out[i] = token})

\* how far a run is from the run of a healthy package
Deviations(tm, pm, name, vi, rsk, rep, out) ==
    (IF tm = NomThreatModel THEN 0 ELSE 1)
  + (IF pm = "pypi" THEN 0 ELSE 1)
  + (IF name = "Pkg" THEN 0 ELSE 1)
  + (IF vi = NomVerInfo THEN 0 ELSE 1)
  + TotalAlerts(rsk) + Count(out, "FAILED")
  + Cardinality({k \in DOMAIN rep \cap DOMAIN NominalReport : rep[k] # NominalReport[k]})

\* the deviations a run may show: fewer when its answers are recorded
Allowed(recorded) == IF recorded THEN MaxRecorded ELSE MaxDeviations

\* a collaborator may still answer otherwise than nominally
Budget ==
  Deviations(threat_model, pm_name, pkg_name, ver_info, risks, report, stdout)
    < Allowed(answers.on)

Bounded(res) ==
  Deviations(threat_model, pm_name, pkg_name, ver_info,
             res.risks, res.report, stdout \o res.out) <= Allowed(answers.on)


-----------------------------------------------------------------------------
(* The driver *)

\* the main block with the repository stage before the downloads stage
Pipeline_repo_first ==
  <<"analyze_version", "analyze_release_history", "analyze_author", "analyze_readme",
    "analyze_homepage", "analyze_repo", "analyze_downloads", "analyze_cves",
    "download", "analyze_apis", "finalize">>

\* the order of the calls of the main block
Pipeline ==
  <<"analyze_version", "analyze_release_history", "analyze_author", "analyze_readme",
    "analyze_homepage", "analyze_downloads", "analyze_repo", "analyze_cves",
    "download", "analyze_apis", "finalize">>

After(step) == Pipeline[(CHOOSE i \in DOMAIN Pipeline : Pipeline[i] = step) + 1]

Init ==
  /\ pc = "setup"
  /\ threat_model = <<>>
  /\ pm_name = ""
  /\ pkg_name = ""
  /\ ver_str = None
  /\ ver_info = <<>>
  /\ risks = <<>>
  /\ report = <<>>
  /\ filepath = Unbound
  /\ stdout = <<>>
  /\ files = <<>>
  /\ exit_code = None
  /\ error = ""
  /\ answers = [on |-> FALSE, log |-> <<>>]

\* exit(code), or an exception nobody catches
Exit(code, err) ==
  /\ pc' = "exited"
  /\ exit_code' = Num(code)
  /\ error' = err

\* the main block up to the creation of the registry and the report
Setup ==
  /\ pc = "setup"
  /\ \E csv \in ThreatCsvs, argv1 \in Argv1, argv2 \in Argv2, pm_proxy \in {None, Str("proxy")},
        pkg_info \in Metadatas, vi \in VerInfos, recorded \in BOOLEAN :
       LET pm == lower(argv1)
           name0 == argv2[1]
           ver0 == IF Len(argv2) = 1 THEN None ELSE Str(argv2[2])
           name == IF pkg_info \notin {Raise, None}
                      /\ "info" \in DOMAIN pkg_info.dict
                      /\ "name" \in DOMAIN pkg_info.dict["info"]
                   THEN pkg_info.dict["info"]["name"] ELSE name0
           fetching == <<StartLine("setup")>>
           fail(p, n, v, out, code, err) ==
             /\ pm_name' = p /\ pkg_name' = n /\ ver_str' = v
             /\ stdout' = out
             /\ Exit(code, err)
             /\ ~recorded
             /\ UNCHANGED <<ver_info, risks, report, answers>>
       IN /\ threat_model' = get_threat_model(csv)
          /\ UNCHANGED <<filepath, files>>
          /\ IF pm \notin {"pypi", "npm"}
             THEN fail(pm, "", None, <<"Package manager is not supported">>, 1, "")
             ELSE IF Not(pm_proxy)
             THEN fail(pm, "", None, <<>>, 1, "AssertionError")
             ELSE IF Len(argv2) > 2
             THEN fail(pm, name0, None, <<>>, 1, "ValueError")
             ELSE IF pkg_info = Raise \/ Not(pkg_info)
             THEN fail(pm, name0, ver0, fetching \o <<"FAILED">>, 1, "")
             ELSE IF vi = Raise \/ Not(vi)
             THEN fail(pm, name, ver0, fetching \o <<"FAILED">>, 1, "")
             ELSE IF Not(ver0) /\ "tag" \notin DOMAIN vi.dict
             THEN fail(pm, name, ver0, fetching \o <<"FAILED">>, 1, "")
             ELSE /\ pm_name' = pm
                  /\ pkg_name' = name
                  /\ ver_str' = (IF Not(ver0) THEN vi.dict["tag"] ELSE ver0)
                  /\ ver_info' = vi.dict
                  /\ stdout' = fetching \o <<"OK">>
                  /\ risks' = <<>>
                  /\ report' = <<>>
                  /\ pc' = Pipeline[1]
                  /\ answers' = [on |-> recorded, log |-> <<>>]
                  /\ UNCHANGED <<exit_code, error>>
                  /\ Deviations(threat_model', pm, name, vi.dict, <<>>, <<>>, <<>>)
                       <= Allowed(recorded)

\* the history with one more answer, in a recorded run
Record(answer) ==
  IF answers.on THEN [answers EXCEPT !.log = Append(@, answer)] ELSE answers

\* the answer of a collaborator, or Unbound for one the stage never called
Asked(called, answer) == IF called THEN answer ELSE Unbound

\* risks, report = analyze_...(...): one stage of the pipeline; an exception
\* that left the stage would end the run with a traceback
Stage(step, res, answer) ==
  /\ answers' = Record(answer)
  /\ risks' = res.risks
  /\ report' = res.report
  /\ stdout' = stdout \o res.out
  /\ IF res.raised
     THEN Exit(1, "Exception")
     ELSE pc' = After(step) /\ UNCHANGED <<exit_code, error>>
  /\ UNCHANGED <<threat_model, pm_name, pkg_name, ver_str, ver_info, filepath, files>>

AnalyzeVersion ==
  /\ pc = "analyze_version"
  /\ \E delta \in Deltas :
       LET res == analyze_version(ver_info, delta, risks, report)
       IN /\ delta = NomDelta \/ (Budget /\ Bounded(res))
          /\ Stage("analyze_version", res,
                   Asked(~Not(Dict(ver_info)) /\ "uploaded" \in DOMAIN ver_info, delta))

AnalyzeReleaseHistory ==
  /\ pc = "analyze_release_history"
  /\ \E hist \in Histories :
       LET res == analyze_release_history(pkg_name, ver_str.str, hist, risks, report)
       IN /\ hist = NomHistory \/ (Budget /\ Bounded(res))
          /\ Stage("analyze_release_history", res, hist)

AnalyzeAuthor ==
  /\ pc = "analyze_author"
  /\ \E author_info \in Authors, checked \in EmailChecks :
       LET res == analyze_author(author_info, checked, risks, report)
       IN /\ (author_info = NomAuthor /\ checked = NomEmailCheck) \/ (Budget /\ Bounded(res))
          /\ Stage("analyze_author", res,
                   <<author_info, Asked(author_info # Raise /\ ~Not(author_info), checked)>>)

AnalyzeReadme ==
  /\ pc = "analyze_readme"
  /\ \E descr \in Descriptions :
       LET res == analyze_readme(descr, risks, report)
       IN /\ descr = NomDescription \/ (Budget /\ Bounded(res))
          /\ Stage("analyze_readme", res, descr)

AnalyzeHomepage ==
  /\ pc = "analyze_homepage"
  /\ \E url \in Homepages, site \in SiteChecks, popular \in PopularChecks :
       \E parsed \in ParseAnswers(url) :
         LET res == analyze_homepage(url, parsed, site, popular, risks, report)
         IN /\ \/ (url = NomHomepage /\ parsed # Raise /\ site = NomSiteCheck
                    /\ popular = NomPopularCheck)
               \/ (Budget /\ Bounded(res))
            /\ Stage("analyze_homepage", res,
                     <<url, parsed, Asked(parsed # Raise, site),
                       Asked(parsed # Raise /\ site # Raise /\ site.valid_site, popular)>>)

AnalyzeDownloads ==
  /\ pc = "analyze_downloads"
  /\ \E ret \in DownloadCounts :
       LET res == analyze_downloads(ret, risks, report)
       IN /\ ret = NomDownloadCount \/ (Budget /\ Bounded(res))
          /\ Stage("analyze_downloads", res, ret)

AnalyzeRepo ==
  /\ pc = "analyze_repo"
  /\ \E repo \in Repos, homepage \in RepoHomepages, download_url \in DownloadUrls :
       LET res == analyze_repo(repo, homepage, download_url, risks, report)
       IN /\ repo = NomRepo \/ (Budget /\ Bounded(res))
          /\ Stage("analyze_repo", res,
                   LET second == repo # Raise /\ Not(repo)
                       third == /\ second
                                /\ homepage # Raise
                                /\ (Not(homepage) \/ ~startswith_any(homepage.str,
                                                                     popular_hosting_services))
                   IN <<repo, Asked(second, homepage), Asked(third, download_url)>>)

AnalyzeCves ==
  /\ pc = "analyze_cves"
  /\ \E vulns \in Vulns :
       LET res == analyze_cves(vulns, risks, report)
       IN /\ vulns = NomVulns \/ (Budget /\ Bounded(res))
          /\ Stage("analyze_cves", res, vulns)


\* the try block that downloads the archive
DownloadPackage ==
  /\ pc = "download"
  /\ \E ans \in Downloads :
       LET start == <<StartLine("download")>>
           out == IF "url" \notin DOMAIN ver_info THEN start \o <<"FAILED">>
                  ELSE IF ans = Raise THEN start \o <<"FAILED">>
                  ELSE IF ~IsInt(ans.size) THEN start \o <<"FAILED">>
                  ELSE start \o <<"OK">>
       IN /\ ans = NomDownload \/ (Budget /\ Bounded(Result(risks, report, out)))
          /\ stdout' = stdout \o out
          /\ answers' = Record(ans)
          /\ filepath' = IF "url" \notin DOMAIN ver_info \/ ans = Raise
                         THEN filepath ELSE ans.filepath
  /\ pc' = After("download")
  /\ UNCHANGED <<threat_model, pm_name, pkg_name, ver_str, ver_info, risks, report, files,
                 exit_code, error>>

\* if filepath: risks, report = analyze_apis(...)
AnalyzeApis ==
  /\ pc = "analyze_apis"
  /\ IF filepath = Unbound
     THEN /\ Exit(1, "NameError")
          /\ UNCHANGED <<threat_model, pm_name, pkg_name, ver_str, ver_info, risks, report,
                         filepath, stdout, files, answers>>
     ELSE IF Not(filepath)
     THEN /\ pc' = After("analyze_apis")
          /\ UNCHANGED <<threat_model, pm_name, pkg_name, ver_str, ver_info, risks, report,
                         filepath, stdout, files, exit_code, error, answers>>
     ELSE \E static \in Statics :
            \E perms \in IF static = NomStatic /\ Budget THEN Perms ELSE {NomPerms} :
              LET res == analyze_apis(pm_name, static, perms, risks, report)
              IN /\ (static = NomStatic /\ perms = NomPerms) \/ (Budget /\ Bounded(res))
                 /\ Stage("analyze_apis", res,
                        <<static, Asked(static # Raise /\ static.exists, perms)>>)

\* a risks section that is the registry even when the registry is empty
risks_section_mapping(rsk) == Dict(rsk)

\* the risks section of the report
risks_section(rsk) == IF Cardinality(DOMAIN rsk) = 0 THEN None ELSE Dict(rsk)

\* the end of the main block: the risks section and the report file
Finalize ==
  /\ pc = "finalize"
  /\ LET rep == Put(report, "risks", risks_section(risks))
         line == IF Cardinality(DOMAIN risks) = 0 THEN "[+] No risks found!"
                 ELSE "[+] " \o ToString(TotalAlerts(risks)) \o " risk(s) found"
         filename == pm_name \o "-" \o pkg_name \o "-" \o ver_str.str \o ".json"
     IN /\ report' = rep
        /\ files' = Append(files, [filename |-> filename, content |-> rep])
        /\ stdout' = stdout \o <<line, "=> Complete report: " \o filename>>
  /\ Exit(0, "")
  /\ UNCHANGED <<threat_model, pm_name, pkg_name, ver_str, ver_info, risks, filepath, answers>>

Next ==
  \/ Setup
  \/ AnalyzeVersion
  \/ AnalyzeReleaseHistory
  \/ AnalyzeAuthor
  \/ AnalyzeReadme
  \/ AnalyzeHomepage
  \/ AnalyzeDownloads
  \/ AnalyzeRepo
  \/ AnalyzeCves
  \/ DownloadPackage
  \/ AnalyzeApis
  \/ Finalize

Spec == Init /\ [][Next]_vars

TypeOK ==
  /\ pc \in {"setup", "exited"} \cup {Pipeline[i] : i \in DOMAIN Pipeline}
  /\ exit_code \in {None, Num(0), Num(1)}
  /\ Len(files) <= 1


-----------------------------------------------------------------------------
(* What the output and the report tell about a run *)

\* the nine stages, in the order the main block calls them
Stages == SelectSeq(Pipeline, LAMBDA p : p \notin {"download", "finalize"})
StageSet == {Stages[i] : i \in DOMAIN Stages}

IsStatus(t) == t \in {"OK", "FAILED"}
IsStageStart(t) == \E s \in StageSet : t = StartLine(s)

Started(step) == \E i \in DOMAIN stdout : stdout[i] = StartLine(step)

\* the OK and FAILED lines a step printed after its first line
Statuses(step) ==
  LET i == CHOOSE k \in DOMAIN stdout : stdout[k] = StartLine(step)
      ends == {k \in (i + 1)..Len(stdout) : stdout[k] \notin {"OK", "FAILED", "KeyError"}}
      j == IF ends = {} THEN Len(stdout) + 1
           ELSE CHOOSE k \in ends : \A m \in ends : k <= m
  IN SelectSeq(SubSeq(stdout, i + 1, j - 1), IsStatus)

Ended(step, status) == Started(step) /\ Statuses(step) = <<status>>

\* the stages started so far, in the order they started
StartedStages ==
  LET l == SelectSeq(stdout, IsStageStart)
  IN [i \in DOMAIN l |-> CHOOSE s \in StageSet : StartLine(s) = l[i]]

SetupOk == Ended("setup", "OK")

\* every category keeps its messages, in order, and no category is lost
AppendOnly(old, new) ==
  /\ DOMAIN old \subseteq DOMAIN new
  /\ \A c \in DOMAIN old : IsPrefix(old[c], new[c])

Holds(rsk, alert_type, reason) ==
  /\ alert_type \in DOMAIN threat_model
  /\ threat_model[alert_type] \in DOMAIN rsk
  /\ \E i \in DOMAIN rsk[threat_model[alert_type]] :
       rsk[threat_model[alert_type]][i] = alert_type \o ": " \o reason

\* the step taken is a stage that ends with FAILED
FailedStep ==
  /\ pc \in StageSet
  /\ Len(stdout') > Len(stdout)
  /\ stdout'[Len(stdout')] = "FAILED"

-----------------------------------------------------------------------------
(* C1 *)

\* C1 (as claimed): once setup has succeeded the run ends with the report
\* written exactly once and without an error; when the download gave no archive
\* the API-usage stage is skipped and the report has no permissions section.
C1_ReportAlwaysWritten ==
  (pc = "exited" /\ SetupOk) =>
    /\ Len(files) = 1
    /\ error = ""
    /\ exit_code = Num(0)
    /\ (filepath = Unbound =>
          ~Started("analyze_apis") /\ "permissions" \notin DOMAIN files[1].content)

-----------------------------------------------------------------------------
(* C2 *)

\* C2: no failure of a stage reaches the driver, and a stage that ended with
\* FAILED is followed by the next step of the main block: that step is the one
\* the run is at, and it can be taken, or it has started already.
C2_FailureIsolation ==
  /\ error # "Exception"
  /\ pc \in StageSet \cup {"download", "finalize"} => ENABLED Next
  /\ \A i \in 1..(Len(Pipeline) - 1) :
       (Pipeline[i] \in StageSet /\ Started(Pipeline[i])) =>
         /\ Len(Statuses(Pipeline[i])) = 1
         /\ \/ pc = Pipeline[i + 1]
            \/ Pipeline[i + 1] = "finalize" /\ pc = "exited" /\ Len(files) = 1
            \/ Started(Pipeline[i + 1])

\* a stage has failed and the stages after it have run to the end of the run
C2_Witness ==
  /\ pc = "exited"
  /\ exit_code = Num(0)
  /\ Ended("analyze_version", "FAILED")
  /\ Ended("analyze_cves", "FAILED")
  /\ Ended("analyze_release_history", "OK")
  /\ Ended("analyze_apis", "OK")

-----------------------------------------------------------------------------
(* C3 *)

\* C3 (as claimed): a stage that ends with FAILED leaves the registry and the
\* report exactly as they were when it began.
C3_FailedStageChangesNothing ==
  [][FailedStep => (risks' = risks /\ report' = report)]_vars

\* C3 (amended): a stage that ends with FAILED leaves the report exactly as it
\* was when it began, and the registry keeps all it held: the alerts the stage
\* recorded before it failed are appended to it.
C3_FailedStageKeepsReport ==
  [][FailedStep => (report' = report /\ AppendOnly(risks, risks'))]_vars

\* the readme stage has failed on a missing description after recording its alert
C3_Witness ==
  /\ Ended("analyze_readme", "FAILED")
  /\ "version" \in DOMAIN report
  /\ Holds(risks, "no or insufficient readme", "no description")

-----------------------------------------------------------------------------
(* C4 *)

ClaimedOrder ==
  <<"analyze_version", "analyze_release_history", "analyze_author", "analyze_readme",
    "analyze_homepage", "analyze_repo", "analyze_downloads", "analyze_cves", "analyze_apis">>

CodeOrder ==
  <<"analyze_version", "analyze_release_history", "analyze_author", "analyze_readme",
    "analyze_homepage", "analyze_downloads", "analyze_repo", "analyze_cves", "analyze_apis">>

\* the stages started are the first ones of the order, each once
InOrder(started, order) == IsPrefix(started, order)

\* C4 (as claimed): the stages start in the order version, release history,
\* author, readme, homepage, repository, downloads, vulnerabilities, API usage,
\* each at most once.
C4_ClaimedOrder == InOrder(StartedStages, ClaimedOrder)

\* C4 (amended): the stages start in the order version, release history,
\* author, readme, homepage, downloads, repository, vulnerabilities, API usage,
\* each at most once and never again: downloads runs before the repository.
C4_CodeOrder == InOrder(StartedStages, CodeOrder)

\* all nine stages have started
C4_Witness == Len(StartedStages) = 9 /\ pc = "exited"


-----------------------------------------------------------------------------
(* C5 *)

\* the (alert_type, reason) the claim gives for each tag
ClaimedPair(tag) ==
  IF tag = "SOURCE_FILE" THEN <<"accesses files and dirs", "reads files and dirs">>
  ELSE IF tag = "SINK_FILE" THEN <<"accesses files and dirs", "writes to files and dirs">>
  ELSE IF tag = "SINK_NETWORK"
  THEN <<"communicates with external network", "sends data over the network %s">>
  ELSE IF tag = "SOURCE_NETWORK"
  THEN <<"communicates with external network", "fetches data over the network">>
  ELSE IF tag = "SINK_CODE_GENERATION"
  THEN <<"generates new code at runtime", "generates new code at runtime">>
  ELSE IF tag = "SINK_PROCESS_OPERATION"
  THEN <<"generates new code at runtime", "spawns new processes in background">>
  ELSE IF tag = "SOURCE_OBFUSCATION"
  THEN <<"accesses obfuscated (hidden) code", "reads hidden code">>
  ELSE IF tag = "SOURCE_SETTINGS"
  THEN <<"accesses system/environment variables",
         "reads system settings or environment variables">>
  ELSE IF tag \in {"SINK_UNCLASSIFIED", "SOURCE_ACCOUNT"}
  THEN <<"changes system/environment variables",
         "modifies system settings or environment variables">>
  ELSE <<"reads user input", "reads user input">>

\* the tag a call site of the report was found for
TagOf(site) == CHOOSE t \in Tags : Usage(t)[1] = site

\* C5 (as claimed): after the API-usage stage every call site of the
\* permissions section is filed under the reason the table gives for its tag,
\* and the registry holds the table's alert for that tag when the threat model
\* maps its alert type.
C5_TableEntries ==
  Ended("analyze_apis", "OK") =>
    \A r \in DOMAIN report["permissions"].dict :
      \A i \in DOMAIN report["permissions"].dict[r] :
        LET c == ClaimedPair(TagOf(report["permissions"].dict[r][i]))
        IN /\ r = c[2]
           /\ c[1] \in DOMAIN threat_model => Holds(risks, c[1], c[2])

-----------------------------------------------------------------------------
(* C6 *)

AlertTypes ==
  {"old package", "few versions or releases", "version release after a long gap",
   "invalid or no author email (2FA not enabled)", "no or insufficient readme",
   "invalid or no homepage", "few downloads", "invalid or no source repo",
   "contains known vulnerablities (CVEs)", "accesses files and dirs",
   "communicates with external network", "generates new code at runtime",
   "accesses obfuscated (hidden) code", "accesses system/environment variables",
   "changes system/environment variables", "reads user input", "an unknown alert"}

\* C6: on the registry of any reachable state, alert_user leaves the registry
\* as it is when the alert type is no key of the threat model; otherwise the
\* category of the alert type holds its former messages (none if it was absent)
\* followed by the one message "<alert_type>: <reason>", and every other
\* category is unchanged.
C6_AlertUser ==
  \A alert_type \in AlertTypes, reason \in {"no homepage", "only 999 weekly downloads"} :
    LET new == alert_user(alert_type, threat_model, reason, risks)
    IN IF alert_type \notin DOMAIN threat_model
       THEN new = risks
       ELSE LET cat == threat_model[alert_type]
                was == IF cat \in DOMAIN risks THEN risks[cat] ELSE <<>>
            IN /\ DOMAIN new = DOMAIN risks \cup {cat}
               /\ new[cat] = was \o <<alert_type \o ": " \o reason>>
               /\ \A other \in DOMAIN risks \ {cat} : new[other] = risks[other]

\* a run under a threat model without the file alert: the API-usage stage has
\* run and its alert is not recorded, the downloads alert is
C6_Witness ==
  /\ Ended("analyze_apis", "OK")
  /\ "accesses files and dirs" \notin DOMAIN threat_model
  /\ risks = [c \in {"vulnerable"} |-> <<"few downloads: only 999 weekly downloads">>]

-----------------------------------------------------------------------------
(* C7 *)

AlertTypesOf(step) ==
  IF step = "analyze_version" THEN {"old package"}
  ELSE IF step = "analyze_release_history"
  THEN {"few versions or releases", "version release after a long gap"}
  ELSE IF step = "analyze_author" THEN {"invalid or no author email (2FA not enabled)"}
  ELSE IF step = "analyze_readme" THEN {"no or insufficient readme"}
  ELSE IF step = "analyze_homepage" THEN {"invalid or no homepage"}
  ELSE IF step = "analyze_downloads" THEN {"few downloads"}
  ELSE IF step = "analyze_repo" THEN {"invalid or no source repo"}
  ELSE IF step = "analyze_cves" THEN {"contains known vulnerablities (CVEs)"}
  ELSE IF step = "analyze_apis" THEN {ClaimedPair(t)[1] : t \in Tags}
  ELSE {}

\* the reasons the answers of the collaborators can give rise to
Reasons ==
  {"no release date", "366 days old", "only 1 versions released",
   "version released after 181 days", "version released after 200 days",
   "no email", "invalid author email", "expired author email domain",
   "no description", "insufficient description",
   "no homepage", "insecure webpage", "nonexistent webpage", "invalid (popular) webpage",
   "only 999 weekly downloads", "no source repo found",
   "invalid source repo https://example.com/x/y",
   "invalid source repo https://github.com/pypa/sampleproject/",
   "contains CVE-1", "contains CVE-1,CVE-2"}
  \cup {ClaimedPair(t)[2] : t \in Tags}

MessagesOf(step) == {a \o ": " \o r : a \in AlertTypesOf(step), r \in Reasons}

\* C7: every step leaves each category of the registry in place with its
\* former messages as a prefix of its new ones; the messages a step appends
\* are alerts of the stage the run is at, so that the messages of a category
\* stand in the order the stages ran; and recording one alert twice appends
\* two equal messages.
C7_AppendOnly ==
  [][/\ AppendOnly(risks, risks')
     /\ \A c \in DOMAIN risks' :
          \A i \in 1..Len(risks'[c]) :
            (c \notin DOMAIN risks \/ i > Len(risks[c])) => risks'[c][i] \in MessagesOf(pc)
     /\ \A a \in DOMAIN threat_model :
          LET c == threat_model[a]
              n == IF c \in DOMAIN risks THEN Len(risks[c]) ELSE 0
              twice == alert_user(a, threat_model, "no homepage",
                                  alert_user(a, threat_model, "no homepage", risks))
          IN /\ Len(twice[c]) = n + 2
             /\ twice[c][n + 1] = a \o ": no homepage"
             /\ twice[c][n + 2] = a \o ": no homepage"]_vars

\* a category holds the same message twice, after one more of an earlier stage
C7_Witness ==
  \E c \in DOMAIN risks :
    /\ Len(risks[c]) = 2
    /\ risks[c][1] = risks[c][2]

-----------------------------------------------------------------------------
(* C8 *)

\* C8: no category of the registry is ever empty, and in the report written
\* at the end the risks section is null exactly when the registry holds no
\* message, and is the registry otherwise.
C8_RisksSection ==
  /\ \A c \in DOMAIN risks : Len(risks[c]) >= 1
  /\ (pc = "exited" /\ Len(files) = 1) =>
       LET section == files[1].content["risks"]
       IN /\ section = None <=> TotalAlerts(risks) = 0
          /\ section # None => section = Dict(risks) /\ DOMAIN risks # {}

\* a run without any alert has written its report, with eight stages run
C8_Witness ==
  /\ pc = "exited"
  /\ Len(files) = 1
  /\ Len(StartedStages) = 8
  /\ report["risks"] = None

-----------------------------------------------------------------------------
(* C9 *)

SectionOf ==
  [analyze_version |-> "version", analyze_release_history |-> "releases",
   analyze_author |-> "author", analyze_homepage |-> "homepage", analyze_repo |-> "repo",
   analyze_cves |-> "vulnerabilities", analyze_apis |-> "permissions"]

\* C9: a stage that has started has printed its first line once and exactly
\* one of OK and FAILED; the report holds the section of a stage exactly when
\* the stage has ended with OK; and the report written at the end holds these
\* sections and the risks section.
C9_SectionsIffOk ==
  /\ \A s \in StageSet :
       /\ Started(s) => Count(stdout, StartLine(s)) = 1 /\ Len(Statuses(s)) = 1
       /\ s \in DOMAIN SectionOf => (SectionOf[s] \in DOMAIN report <=> Ended(s, "OK"))
  /\ (pc = "exited" /\ Len(files) = 1) =>
       DOMAIN files[1].content =
         {"risks"} \cup {SectionOf[s] : s \in {t \in DOMAIN SectionOf : Ended(t, "OK")}}

\* a report written without the section of a failed stage and of a skipped
\* one, with the section of a stage that ended with OK
C9_Witness ==
  /\ pc = "exited"
  /\ Len(files) = 1
  /\ Ended("analyze_version", "FAILED")
  /\ ~Started("analyze_apis")
  /\ DOMAIN files[1].content =
       {"releases", "author", "homepage", "repo", "vulnerabilities", "risks"}

-----------------------------------------------------------------------------
(* C10 *)

Few == "few versions or releases"
Gap == "version release after a long gap"

\* the number of releases of a history, -1 when the call gave no history
Releases(hist) == IF IsDict(hist) THEN Cardinality(DOMAIN hist.dict) ELSE -1

\* the days since the previous release of the current version, -1 when unknown
DaysOf(hist) ==
  IF /\ IsDict(hist)
     /\ ver_str.str \in DOMAIN hist.dict
     /\ "days_since_last_release" \in DOMAIN hist.dict[ver_str.str]
     /\ IsInt(hist.dict[ver_str.str]["days_since_last_release"])
  THEN hist.dict[ver_str.str]["days_since_last_release"].int
  ELSE -1

GapReason(hist) == "version released after " \o ToString(DaysOf(hist)) \o " days"

\* the registry after the stage holds the alerts said to be recorded, and no
\* other new message
RecordsExactly(res, few, gap, hist) ==
  /\ AppendOnly(risks, res.risks)
  /\ (few /\ Few \in DOMAIN threat_model) =>
       Holds(res.risks, Few, "only " \o ToString(Releases(hist)) \o " versions released")
  /\ (gap /\ Gap \in DOMAIN threat_model) => Holds(res.risks, Gap, GapReason(hist))
  /\ TotalAlerts(res.risks) = TotalAlerts(risks)
       + (IF few /\ Few \in DOMAIN threat_model THEN 1 ELSE 0)
       + (IF gap /\ Gap \in DOMAIN threat_model THEN 1 ELSE 0)

\* C10 (as claimed): for every history the registry client can answer, the
\* stage records the few-versions alert exactly when the history has fewer
\* than 2 releases and the long-gap alert exactly when the days of the current
\* version exceed 180, and with 1 release it sets the releases section to the
\* history.
C10_AsClaimed ==
  pc = "analyze_release_history" =>
    \A hist \in Histories :
      LET res == analyze_release_history(pkg_name, ver_str.str, hist, risks, report)
          n == Releases(hist)
      IN /\ n >= 0 => RecordsExactly(res, n < 2, DaysOf(hist) > 180, hist)
         /\ n = 1 => "releases" \in DOMAIN res.report /\ res.report["releases"] = hist

\* C10 (amended): the stage records the few-versions alert when the history has
\* exactly 1 release, and then sets the releases section to that history; a
\* history without any release fails the stage and records nothing; with 2
\* releases or more it records the long-gap alert when the days of the
\* current version exceed 180, and no alert when they are 180 or less or unknown.
C10_Amended ==
  pc = "analyze_release_history" =>
    \A hist \in Histories :
      LET res == analyze_release_history(pkg_name, ver_str.str, hist, risks, report)
          n == Releases(hist)
      IN /\ n = 1 =>
              /\ res.risks = alert_user(Few, threat_model, "only 1 versions released", risks)
              /\ res.report = Put(report, "releases", hist)
              /\ res.out = <<StartLine("analyze_release_history"), "OK">>
         /\ n = 0 =>
              /\ res.risks = risks /\ res.report = report
              /\ res.out = <<StartLine("analyze_release_history"), "FAILED">>
         /\ (n >= 2 /\ DaysOf(hist) > 180) =>
              res.risks = alert_user(Gap, threat_model, GapReason(hist), risks)
         /\ (n >= 2 /\ DaysOf(hist) <= 180) => res.risks = risks

\* the stage has run on a history of 1 release: the alert and the section
C10_Witness ==
  /\ Ended("analyze_release_history", "OK")
  /\ Holds(risks, Few, "only 1 versions released")
  /\ Cardinality(DOMAIN report["releases"].dict) = 1

-----------------------------------------------------------------------------
(* C11 *)

Insecure == "insecure webpage"

\* the number of messages of the registry that are the given alert
CountOf(rsk, alert_type, reason) ==
  IF alert_type \in DOMAIN threat_model /\ threat_model[alert_type] \in DOMAIN rsk
  THEN Count(rsk[threat_model[alert_type]], alert_type \o ": " \o reason)
  ELSE 0

\* C11: when the homepage stage is to run, for every homepage URL of scheme
\* http and every answer of the reachability and the popularity probe (a
\* reachable site, an unreachable one, a probe that raises), the stage adds
\* the alert 'invalid or no homepage: insecure webpage' to the registry, when
\* the threat model maps the alert type; no step of the run removes the alert
\* once it is there; and a report written with an http homepage holds it in
\* its risks section.
C11_InsecureHomepage ==
  [][/\ pc = "analyze_homepage" =>
          \A url \in {u \in Homepages \ {Raise} : scheme(u) = "http"} :
            \A site \in SiteChecks, popular \in PopularChecks :
              LET res == analyze_homepage(url, [scheme |-> scheme(url)], site, popular,
                                          risks, report)
              IN "invalid or no homepage" \in DOMAIN threat_model =>
                   CountOf(res.risks, "invalid or no homepage", Insecure)
                     = CountOf(risks, "invalid or no homepage", Insecure) + 1
     /\ CountOf(risks', "invalid or no homepage", Insecure)
          >= CountOf(risks, "invalid or no homepage", Insecure)
     /\ (pc' = "exited" /\ Len(files') = 1 /\ "homepage" \in DOMAIN report'
           /\ scheme(report'["homepage"]) = "http"
           /\ "invalid or no homepage" \in DOMAIN threat_model) =>
          /\ report'["risks"] # None
          /\ Holds(report'["risks"].dict, "invalid or no homepage", Insecure)]_vars

\* a run is over whose homepage was a reachable http site: the alert is there
C11_Witness ==
  /\ pc = "exited"
  /\ Len(files) = 1
  /\ "homepage" \in DOMAIN report
  /\ report["homepage"] = Str("http://example.com/")
  /\ "undesirable" \in DOMAIN risks
  /\ risks["undesirable"] = <<"invalid or no homepage: insecure webpage">>

-----------------------------------------------------------------------------
(* C12 *)

Network == "communicates with external network"
Sends == "sends data over the network %s"
Fetches == "fetches data over the network"

ReasonOfNetworkTag(tag) == IF tag = "SINK_NETWORK" THEN Sends ELSE Fetches

\* the records holding exactly the two network tags, in either order
NetworkRecords == {<<"SINK_NETWORK", "SOURCE_NETWORK">>, <<"SOURCE_NETWORK", "SINK_NETWORK">>}

\* C12: when the API-usage stage is to run, on either record that holds
\* exactly the tags SINK_NETWORK and SOURCE_NETWORK the stage ends with OK,
\* the permissions section has exactly the two reason keys of the two tags,
\* each with the call sites of its own tag, and, when the threat model maps
\* 'communicates with external network', the category of that alert type has
\* grown by exactly two messages, one per tag in the order of the record, with
\* two different reasons.
C12_NetworkTags ==
  (pc = "analyze_apis" /\ filepath \notin {Unbound, None} /\ pm_name \in {"pypi", "npm"}) =>
    \A q \in NetworkRecords :
      LET res == analyze_apis(pm_name, NomStatic, PermsOf(q), risks, report)
          perm == res.report["permissions"].dict
          cat == threat_model[Network]
          was == IF cat \in DOMAIN risks THEN risks[cat] ELSE <<>>
      IN /\ res.out = <<StartLine("analyze_apis"), "OK">>
         /\ DOMAIN perm = {Sends, Fetches}
         /\ perm[Sends] = Usage("SINK_NETWORK")
         /\ perm[Fetches] = Usage("SOURCE_NETWORK")
         /\ Sends # Fetches
         /\ IF Network \in DOMAIN threat_model
            THEN /\ res.risks[cat] = was \o <<Network \o ": " \o ReasonOfNetworkTag(q[1]),
                                              Network \o ": " \o ReasonOfNetworkTag(q[2])>>
                 /\ \A c \in DOMAIN res.risks \ {cat} : c \in DOMAIN risks /\ res.risks[c] = risks[c]
            ELSE res.risks = risks

\* the stage has run on such a record: two reason keys, two alerts
C12_Witness ==
  /\ Ended("analyze_apis", "OK")
  /\ DOMAIN report["permissions"].dict = {Sends, Fetches}
  /\ Holds(risks, Network, Sends)
  /\ Holds(risks, Network, Fetches)

-----------------------------------------------------------------------------
(* C13 *)

RECURSIVE RowSeqs(_)
\* the tables of at most n data rows (risk_category, alert_type) after a header
RowSeqs(n) ==
  IF n = 0 THEN {<< <<"risk", "attribute">> >>}
  ELSE RowSeqs(n - 1) \cup
       {Append(t, <<cat, attr>>) :
          t \in {u \in RowSeqs(n - 1) : Len(u) = n},
          cat \in {"undesirable", "malicious"},
          attr \in {"old package", "few downloads", "few downloads" \o NL}}

\* tm maps the alert types of the data rows of csv, and only these, each to
\* the risk category of the last row that carries it
LastWins(csv, tm) ==
  LET rows == 2..Len(csv)
      alert_type(i) == strip_nl(csv[i][2])
  IN /\ DOMAIN tm = {alert_type(i) : i \in rows}
     /\ \A i \in rows :
          (\A j \in rows : j > i => alert_type(j) # alert_type(i)) =>
            tm[alert_type(i)] = csv[i][1]

\* the loader on every table of at most MaxRows data rows
LoadsLastWins == \A csv \in RowSeqs(MaxRows) : LastWins(csv, get_threat_model(csv))

\* C13: the loader maps each alert type of a data row (the field without the
\* line feed that ends it) to the risk category of the last row carrying it,
\* maps nothing else and skips the header row, on every table of at most
\* MaxRows data rows and on the table the run loads; and no step after the
\* load changes the threat model.
C13_ThreatModel ==
  [][/\ LoadsLastWins
     /\ pc = "setup" => \E csv \in ThreatCsvs : LastWins(csv, threat_model')
     /\ pc # "setup" => threat_model' = threat_model]_vars

\* a run is at its end under the table that names 'few downloads' twice: the
\* later row has won
C13_Witness ==
  /\ pc = "exited"
  /\ Len(files) = 1
  /\ DOMAIN threat_model = {"few downloads", "generates new code at runtime",
                            "invalid or no homepage", "no or insufficient readme"}
  /\ threat_model["few downloads"] = "vulnerable"

-----------------------------------------------------------------------------
(* C14 *)

\* C14 (as claimed): a run that has ended without starting a stage has ended
\* with a non-zero exit code and has written no report; a run that has ended
\* after its first stage started has ended with exit code 0 and without an
\* uncaught error.
C14_ExitStatus ==
  pc = "exited" =>
    IF ~Started("analyze_version")
    THEN exit_code # Num(0) /\ files = <<>> /\ StartedStages = <<>>
    ELSE exit_code = Num(0) /\ error = ""

-----------------------------------------------------------------------------
(* A run computed again from the answers it received *)

\* the metadata stages, in the order the main block calls them
MetadataStages == SubSeq(Stages, 1, 8)

\* the place of a metadata stage in the order of the main block
PlaceOf(step) == CHOOSE i \in 1..8 : Stages[i] = step

\* risks, report = analyze_...(..., risks=risks, report=report), the
\* collaborators answering a
CallStage(step, a, rsk, rep) ==
  IF step = "analyze_version" THEN analyze_version(ver_info, a, rsk, rep)
  ELSE IF step = "analyze_release_history"
  THEN analyze_release_history(pkg_name, ver_str.str, a, rsk, rep)
  ELSE IF step = "analyze_author" THEN analyze_author(a[1], a[2], rsk, rep)
  ELSE IF step = "analyze_readme" THEN analyze_readme(a, rsk, rep)
  ELSE IF step = "analyze_homepage" THEN analyze_homepage(a[1], a[2], a[3], a[4], rsk, rep)
  ELSE IF step = "analyze_downloads" THEN analyze_downloads(a, rsk, rep)
  ELSE IF step = "analyze_repo" THEN analyze_repo(a[1], a[2], a[3], rsk, rep)
  ELSE analyze_cves(a, rsk, rep)

RECURSIVE CallStages(_, _, _, _)
\* the stages of order called one after the other on a registry and a report,
\* log holding the answers to each stage at the place of the stage
CallStages(order, log, rsk, rep) ==
  IF order = <<>> THEN [risks |-> rsk, report |-> rep]
  ELSE LET res == CallStage(Head(order), log[PlaceOf(Head(order))], rsk, rep)
       IN CallStages(Tail(order), log, res.risks, res.report)

\* the report a finished run writes: the main block from the fresh registry
\* and report to the risks section, on the recorded answers
Replay ==
  LET meta == CallStages(MetadataStages, answers.log, <<>>, <<>>)
      path == answers.log[9].filepath
      apis == IF Not(path) THEN meta
              ELSE analyze_apis(pm_name, answers.log[10][1], answers.log[10][2],
                                meta.risks, meta.report)
  IN Put(apis.report, "risks", risks_section(apis.risks))

-----------------------------------------------------------------------------
(* C15 *)

-----------------------------------------------------------------------------
(* C16 *)

RECURSIVE Flatten(_)
\* the lists of a sequence, one after the other
Flatten(lists) == IF lists = <<>> THEN <<>> ELSE Head(lists) \o Flatten(Tail(lists))

\* the reason the loop files each tag under
ReasonOf == [t \in Tags |-> classify(t)[2]]

\* the usage lists of the tags of q whose reason is r, in the order of q
UsagesUnder(q, r) ==
  LET tags == SelectSeq(q, LAMBDA t : ReasonOf[t] = r)
  IN Flatten([i \in DOMAIN tags |-> Usage(tags[i])])

\* the records the claim is checked on: the tags in every order
TagRecords == UNION {TagSeqs(n) : n \in 1..MaxTags}

\* C16: when the API-usage stage is to run and may be given any record, for
\* every record of at most MaxTags tags the permissions section is keyed by
\* the reasons of the tags;
\* under each reason stand the usage lists of the tags with that reason, one
\* after the other in iteration order; and every call site of every tag of
\* the record stands exactly once in the section.
C16_ConcatenatedByReason ==
  (pc = "analyze_apis" /\ Budget /\ filepath \notin {Unbound, None} /\ pm_name \in {"pypi", "npm"}) =>
    \A q \in TagRecords :
      LET perm == analyze_apis(pm_name, NomStatic, PermsOf(q), risks, report)
                    .report["permissions"].dict
      IN /\ DOMAIN perm = {ReasonOf[q[i]] : i \in DOMAIN q}
         /\ \A r \in DOMAIN perm : perm[r] = UsagesUnder(q, r)
         /\ \A i \in DOMAIN q :
              \A k \in DOMAIN Usage(q[i]) :
                /\ Cardinality({r \in DOMAIN perm : Count(perm[r], Usage(q[i])[k]) > 0}) = 1
                /\ \A r \in DOMAIN perm : Count(perm[r], Usage(q[i])[k]) <= 1

\* the stage has filed the call sites of two tags under one reason
C16_Witness ==
  /\ Ended("analyze_apis", "OK")
  /\ \E r \in DOMAIN report["permissions"].dict :
       /\ Len(report["permissions"].dict[r]) = 2
       /\ report["permissions"].dict[r][1] # report["permissions"].dict[r][2]

-----------------------------------------------------------------------------
(* C17 *)

Old == "old package"

\* the upload date of the version is unknown: the field is absent or empty
UploadAbsent == "uploaded" \notin DOMAIN ver_info
UploadEmpty == ~UploadAbsent /\ Not(ver_info["uploaded"])

-----------------------------------------------------------------------------
(* C18 *)

\* the nominal answers to the eight metadata stages, and for each stage an
\* answer that makes it record alerts or fail
NominalAnswers ==
  <<NomDelta, NomHistory, <<NomAuthor, NomEmailCheck>>, NomDescription,
    <<NomHomepage, [scheme |-> "https"], NomSiteCheck, NomPopularCheck>>,
    NomDownloadCount, <<NomRepo, None, None>>, NomVulns>>

OtherAnswers ==
  <<Num(366), Dict([v \in {"1.0"} |-> Entry(None)]),
    <<NomAuthor, EmailCheck(FALSE, FALSE)>>, None,
    <<Str("http://example.com/"), [scheme |-> "http"],
      SiteCheck(FALSE, "nonexistent webpage"), NomPopularCheck>>,
    Num(999), <<Raise, None, None>>, List(<<[id |-> "CVE-1"]>>)>>

\* every choice between the two answers, stage by stage
AnswerVectors ==
  {[i \in 1..8 |-> IF i \in others THEN OtherAnswers[i] ELSE NominalAnswers[i]] :
     others \in SUBSET (1..8)}

\* orders of the eight stages: two neighbours swapped, the order turned
\* round, the order reversed
Orders ==
  LET o == MetadataStages
  IN {[i \in 1..8 |-> IF i = k THEN o[k + 1] ELSE IF i = k + 1 THEN o[k] ELSE o[i]] :
        k \in 1..7}
     \cup {[i \in 1..8 |-> o[((i + k - 1) % 8) + 1]] : k \in 1..7}
     \cup {[i \in 1..8 |-> o[9 - i]]}

\* the same messages, each as often, in any order
SameMessages(l, m) ==
  /\ Len(l) = Len(m)
  /\ \A i \in DOMAIN l : Count(l, l[i]) = Count(m, l[i])

\* C18: with the package resolved, for each choice of answers to the eight
\* metadata stages and each of the orders, calling the stages in that order
\* from an empty registry and report gives the same report, section by
\* section, as the order of the main block, and a registry with the same
\* categories, each with the same messages as often.
C18_StagesIndependent ==
  (pc = "analyze_version" /\ ~answers.on) =>
    \A log \in AnswerVectors :
      LET code == CallStages(MetadataStages, log, <<>>, <<>>)
      IN \A order \in Orders :
           LET other == CallStages(order, log, <<>>, <<>>)
           IN /\ other.report = code.report
              /\ DOMAIN other.risks = DOMAIN code.risks
              /\ \A c \in DOMAIN code.risks : SameMessages(other.risks[c], code.risks[c])

\* with the stages in reverse, a category holds the messages of the main
\* block's order in another order
C18_Witness ==
  /\ pc = "analyze_version"
  /\ ~answers.on
  /\ \E log \in AnswerVectors :
       LET code == CallStages(MetadataStages, log, <<>>, <<>>)
           other == CallStages([i \in 1..8 |-> MetadataStages[9 - i]], log, <<>>, <<>>)
       IN /\ "undesirable" \in DOMAIN code.risks
          /\ Len(code.risks["undesirable"]) >= 3
          /\ other.risks["undesirable"] # code.risks["undesirable"]

-----------------------------------------------------------------------------
(* C19 *)

\* the section keys a step may add to the report
OwnSections(step) ==
  IF step \in DOMAIN SectionOf THEN {SectionOf[step]}
  ELSE IF step = "finalize" THEN {"risks"}
  ELSE {}

\* C19: every step keeps each section the report holds, with its value; a
\* stage adds at most its own section, the finalization adds the risks
\* section, and the readme stage, the downloads stage and the download of the
\* archive leave the report as it is.
C19_ReportFrame ==
  [][/\ \A k \in DOMAIN report : k \in DOMAIN report' /\ report'[k] = report[k]
     /\ (DOMAIN report' \ DOMAIN report) \subseteq OwnSections(pc)
     /\ pc \in {"analyze_readme", "analyze_downloads", "download"} => report' = report]_vars

\* a report written with the seven sections of the stages and the risks
C19_Witness ==
  /\ pc = "exited"
  /\ Len(files) = 1
  /\ Ended("analyze_readme", "OK")
  /\ Ended("analyze_downloads", "OK")
  /\ DOMAIN files[1].content = {"version", "releases", "author", "homepage", "repo",
                                "vulnerabilities", "permissions", "risks"}

-----------------------------------------------------------------------------
(* C20 *)

\* the most alerts the stage the run is at can add to the registry, over all
\* the answers of its collaborators
MostAlerts ==
  LET added(res) == TotalAlerts(res.risks) - TotalAlerts(risks)
      Max(S) == CHOOSE n \in S : \A m \in S : m <= n
  IN IF pc = "analyze_version"
     THEN Max({added(analyze_version(ver_info, d, risks, report)) : d \in Deltas})
     ELSE IF pc = "analyze_release_history"
     THEN Max({added(analyze_release_history(pkg_name, ver_str.str, h, risks, report)) :
                 h \in Histories})
     ELSE IF pc = "analyze_author"
     THEN Max({added(analyze_author(a, c, risks, report)) : a \in Authors, c \in EmailChecks})
     ELSE IF pc = "analyze_readme"
     THEN Max({added(analyze_readme(d, risks, report)) : d \in Descriptions})
     ELSE IF pc = "analyze_homepage"
     THEN Max(UNION {{added(analyze_homepage(u, p, s, c, risks, report)) :
                        p \in ParseAnswers(u), s \in SiteChecks, c \in PopularChecks} :
                     u \in Homepages})
     ELSE IF pc = "analyze_downloads"
     THEN Max({added(analyze_downloads(n, risks, report)) : n \in DownloadCounts})
     ELSE IF pc = "analyze_repo"
     THEN Max({added(analyze_repo(r, h, d, risks, report)) :
                 r \in Repos, h \in RepoHomepages, d \in DownloadUrls})
     ELSE IF pc = "analyze_cves"
     THEN Max({added(analyze_cves(v, risks, report)) : v \in Vulns})
     ELSE 0

\* C20 (as claimed): whatever its collaborators answer, each of the eight
\* metadata stages adds at most one message to the registry.
C20_AtMostOneAlert == MostAlerts <= 1

\* C20 (amended): whatever its collaborators answer, each metadata stage
\* other than the homepage stage adds at most one message to the registry,
\* and the homepage stage adds at most three.
C20_AtMostOneButHomepage == MostAlerts <= (IF pc = "analyze_homepage" THEN 3 ELSE 1)

\* the homepage stage is to run under a threat model that maps its alert: an
\* absent homepage that the reachability probe finds unreachable gives three
\* messages, an unreachable http homepage two
C20_Witness ==
  /\ pc = "analyze_homepage"
  /\ "invalid or no homepage" \in DOMAIN threat_model
  /\ MostAlerts = 3
  /\ TotalAlerts(analyze_homepage(Str("http://example.com/"), [scheme |-> "http"],
                                  SiteCheck(FALSE, "nonexistent webpage"), Bool(FALSE),
                                  risks, report).risks) = TotalAlerts(risks) + 2

====
